---- MODULE Spec2Model ----
(***************************************************************************)
(* Model of the migration_state Ansible module: a JSON state document that *)
(* maps stage names to "started" / "completed", kept in a local file or in *)
(* an S3 object.  Two variants of the module exist in the repository:      *)
(*   plugin  : src/plugins/modules/migration_state.py (local + s3)         *)
(*   library : src/library/migration_state.py         (local only)         *)
(* One invocation of main() is one atomic action (sequential callers);     *)
(* SpecConc follows two concurrent runs backend call by backend call.      *)
(* state_file (and the bucket) is one fixed, valid location per backend.   *)
(***************************************************************************)
EXTENDS Integers, Sequences, FiniteSets, TLC

VARIABLES
    variant,        \* which of the two module files Ansible resolved
    store,          \* backend -> <<>> (no file/object) or <<text>>
    last,           \* record of the most recent invocation (history)
    completed_ok,   \* history: <<backend, name>> whose state=completed run succeeded
    run,            \* process -> position and locals of its run of main()
                    \*   (found, got_doc, read_doc, reread_differs, written: history)
    last_writer     \* history: backend -> the process whose write landed last

vars == <<variant, store, last, completed_ok, run, last_writer>>

----------------------------------------------------------------------------
(* Values *)

\* Python's None
None == "None"

\* argument_spec: state=dict(default='started', choices=['completed', 'started'])
Choices == {"completed", "started"}

\* the stage names callers pass in `name`
Names == {"first", "second", "third"}

\* the stage names passed where a run is followed backend call by backend call
SmallNames == {"first", "second"}

\* state_backend values: the two implemented ones and one the code falls through on
Backends == {"local", "s3"}
BackendArgs == Backends \cup {"other"}

Variants == {"plugin", "library"}

state_schema_version == "v1"

EmptyStages == [n \in {} |-> "started"]

\* state_template = {"version":state_schema_version, "stages": {}}
state_template == [version |-> state_schema_version, stages |-> EmptyStages]

----------------------------------------------------------------------------
(* JSON text: an object is written as its set of members *)

json_dumps(doc) ==
    [version |-> doc.version,
     members |-> {<<k, doc.stages[k]>> : k \in DOMAIN doc.stages}]

\* bytes that json.loads rejects (JSONDecodeError); the empty file is one
NotJsonText == [raw |-> "not json"]
EmptyText == [raw |-> ""]

\* a JSON object without a "stages" member: {"version": "v1"}
NoStagesText == [version |-> "v1"]

\* json.loads raises on this text
json_invalid(text) == "raw" \in DOMAIN text

\* json.loads on text it accepts; a dict is a record of the keys present
json_loads(text) ==
    IF "members" \in DOMAIN text
    THEN [version |-> text.version,
          stages  |-> [k \in {m[1] : m \in text.members} |->
                          (CHOOSE m \in text.members : m[1] = k)[2]]]
    ELSE [version |-> text.version]

\* dict.get(key, None)
dict_get(d, key) == IF key \in DOMAIN d THEN d[key] ELSE None

\* variant of dict_set that stores the status that was read (None when the
\* key is missing) instead of the requested value
dict_set_old_value(d, key, value) ==
    [k \in DOMAIN d \cup {key} |-> IF k = key THEN dict_get(d, key) ELSE d[k]]

\* variant of dict_set that keeps the value of a key that is already there
\* (d.setdefault(key, value))
dict_set_setdefault(d, key, value) ==
    [k \in DOMAIN d \cup {key} |-> IF k \in DOMAIN d THEN d[k] ELSE value]

\* variant of dict_set that rebuilds the mapping from the one entry
dict_set_only(d, key, value) ==
    [k \in {key} |-> value]

\* d[key] = value
dict_set(d, key, value) ==
    [k \in DOMAIN d \cup {key} |-> IF k = key THEN value ELSE d[k]]

----------------------------------------------------------------------------
(* plugin variant: src/plugins/modules/migration_state.py *)

\* variant of os_path_exists that reports every path as missing, so that
\* the template is written on every run (as the s3 branch does)
os_path_exists_never(st) == FALSE

\* os.path.exists(state_file)
os_path_exists(st) == st["local"] # <<>>

_create_local_state_file(st) ==
    [store  |-> [st EXCEPT !["local"] = <<json_dumps(state_template)>>],
     writes |-> 1]

_create_s3_state_file(st) ==
    [store  |-> [st EXCEPT !["s3"] = <<json_dumps(state_template)>>],
     writes |-> 1]

init_state_file(st, state_backend) ==
    IF state_backend = "local"
    THEN IF ~os_path_exists(st)
         THEN _create_local_state_file(st)
         ELSE [store |-> st, writes |-> 0]
    ELSE IF state_backend = "s3"
    THEN _create_s3_state_file(st)
    ELSE [store |-> st, writes |-> 0]

\* outcome "raise": open()/get_object() on a missing resource, or json.loads
\*                  on bytes that are not JSON;
\* outcome "none" : the fall-through `return None`
_read_state_file(st, state_backend) ==
    IF state_backend \in Backends
    THEN IF st[state_backend] = <<>> \/ json_invalid(st[state_backend][1])
         THEN [outcome |-> "raise", state |-> state_template]
         ELSE [outcome |-> "ok", state |-> json_loads(st[state_backend][1])]
    ELSE [outcome |-> "none", state |-> state_template]

\* variant of _write_state_file that dumps state_template, as the two
\* _create_*_state_file functions do, instead of its argument
_write_state_file_template(st, state, state_backend) ==
    IF state_backend \in Backends
    THEN [store  |-> [st EXCEPT ![state_backend] = <<json_dumps(state_template)>>],
          writes |-> 1]
    ELSE [store |-> st, writes |-> 0]

_write_state_file(st, state, state_backend) ==
    IF state_backend \in Backends
    THEN [store  |-> [st EXCEPT ![state_backend] = <<json_dumps(state)>>],
          writes |-> 1]
    ELSE [store |-> st, writes |-> 0]

\* variant of _get_state_key that looks the stage up in the top-level dict
\* (state.get(key_name, None)), where no stage name is a key
_get_state_key_top_level(st, key_name, state_backend) ==
    LET r == _read_state_file(st, state_backend)
    IN  IF r.outcome = "ok"
        THEN [exc |-> FALSE, val |-> None]
        ELSE [exc |-> TRUE, val |-> None]

\* state.get('stages', {}).get(key_name, None); None.get raises AttributeError
_get_state_key(st, key_name, state_backend) ==
    LET r == _read_state_file(st, state_backend)
    IN  IF r.outcome = "ok"
        THEN [exc |-> FALSE,
              val |-> dict_get(IF "stages" \in DOMAIN r.state
                               THEN r.state.stages ELSE EmptyStages, key_name)]
        ELSE [exc |-> TRUE, val |-> None]

\* variant of _set_state_key that updates the in-memory dict and forgets
\* to write it back
_set_state_key_no_write(st, key_name, value, state_backend) ==
    LET r == _read_state_file(st, state_backend)
    IN  IF r.outcome = "ok" /\ "stages" \in DOMAIN r.state
        THEN [exc |-> FALSE, store |-> st, writes |-> 0]
        ELSE [exc |-> TRUE, store |-> st, writes |-> 0]

\* state["stages"] raises KeyError when the document has no stages
_set_state_key(st, key_name, value, state_backend) ==
    LET r == _read_state_file(st, state_backend)
    IN  IF r.outcome = "ok" /\ "stages" \in DOMAIN r.state
        THEN LET state == [r.state EXCEPT
                             !.stages = dict_set(r.state.stages, key_name, value)]
                 w == _write_state_file(st, state, state_backend)
             IN  [exc |-> FALSE, store |-> w.store, writes |-> w.writes]
        ELSE [exc |-> TRUE, store |-> st, writes |-> 0]

\* module.exit_json(name=..., state=..., changed=...)
exit_json(name, final_state, changed) ==
    [failed |-> FALSE, name |-> name, state |-> final_state, changed |-> changed]

\* an uncaught exception ends the module run as a failure
module_failed(name) ==
    [failed |-> TRUE, name |-> name, state |-> None, changed |-> FALSE]

\* main() of the plugin variant; p holds module.params (check_mode is never read)
main(st, p) ==
    LET i == init_state_file(st, p.state_backend)
        g == _get_state_key(i.store, p.name, p.state_backend)
    IN  IF g.exc
        THEN [store |-> i.store, mid |-> i.store, init_writes |-> i.writes,
              writes |-> i.writes, result |-> module_failed(p.name)]
        ELSE IF p.read_state
        THEN [store |-> i.store, mid |-> i.store, init_writes |-> i.writes,
              writes |-> i.writes, result |-> exit_json(p.name, g.val, FALSE)]
        ELSE IF g.val = "completed"
        THEN [store |-> i.store, mid |-> i.store, init_writes |-> i.writes,
              writes |-> i.writes, result |-> exit_json(p.name, "completed", FALSE)]
        ELSE IF g.val # p.state
        THEN LET s == _set_state_key(i.store, p.name, p.state, p.state_backend)
             IN  IF s.exc
                 THEN [store |-> s.store, mid |-> i.store, init_writes |-> i.writes,
                       writes |-> i.writes + s.writes,
                       result |-> module_failed(p.name)]
                 ELSE [store |-> s.store, mid |-> i.store, init_writes |-> i.writes,
                       writes |-> i.writes + s.writes,
                       result |-> exit_json(p.name, p.state, TRUE)]
        ELSE [store |-> i.store, mid |-> i.store, init_writes |-> i.writes,
              writes |-> i.writes, result |-> exit_json(p.name, "started", FALSE)]

----------------------------------------------------------------------------
(* library variant: src/library/migration_state.py (local file only) *)

\* statefile_template = {"version":"v1", "stages":{"first": "completed", "second":"started"}}
lib_init_state_file ==
    [version |-> "v1",
     stages  |-> [n \in {"first", "second"} |->
                     IF n = "first" THEN "completed" ELSE "started"]]

lib_create_state_file(st) ==
    [store  |-> [st EXCEPT !["local"] = <<json_dumps(lib_init_state_file)>>],
     writes |-> 1]

lib_read_state_file(st) ==
    IF st["local"] = <<>> \/ json_invalid(st["local"][1])
    THEN [outcome |-> "raise", state |-> state_template]
    ELSE [outcome |-> "ok", state |-> json_loads(st["local"][1])]

lib_write_state_file(st, state) ==
    [store  |-> [st EXCEPT !["local"] = <<json_dumps(state)>>],
     writes |-> 1]

\* state["stages"][key_name]: KeyError when the key is missing
lib_get_state_key(st, key_name) ==
    LET r == lib_read_state_file(st)
    IN  IF /\ r.outcome = "ok"
           /\ "stages" \in DOMAIN r.state
           /\ key_name \in DOMAIN r.state.stages
        THEN [exc |-> FALSE, val |-> r.state.stages[key_name]]
        ELSE [exc |-> TRUE, val |-> None]

lib_set_state_key(st, key_name, value) ==
    LET r == lib_read_state_file(st)
    IN  IF r.outcome = "ok" /\ "stages" \in DOMAIN r.state
        THEN LET state == [r.state EXCEPT
                             !.stages = dict_set(r.state.stages, key_name, value)]
                 w == lib_write_state_file(st, state)
             IN  [exc |-> FALSE, store |-> w.store, writes |-> w.writes]
        ELSE [exc |-> TRUE, store |-> st, writes |-> 0]

\* module.exit_json(name=..., state=status): no `changed` key in the result
lib_exit_json(name, status) ==
    [failed |-> FALSE, name |-> name, state |-> status]

lib_module_failed(name) ==
    [failed |-> TRUE, name |-> name, state |-> None]

\* main() of the library variant
lib_main(st, p) ==
    LET c == lib_create_state_file(st)
        g == lib_get_state_key(c.store, p.name)
    IN  IF g.exc
        THEN [store |-> c.store, mid |-> c.store, init_writes |-> c.writes,
              writes |-> c.writes, result |-> lib_module_failed(p.name)]
        ELSE IF g.val # p.state
        THEN LET s == lib_set_state_key(c.store, p.name, p.state)
             IN  [store |-> s.store, mid |-> c.store, init_writes |-> c.writes,
                  writes |-> c.writes + s.writes,
                  result |-> IF s.exc THEN lib_module_failed(p.name)
                                      ELSE lib_exit_json(p.name, g.val)]
        ELSE [store |-> c.store, mid |-> c.store, init_writes |-> c.writes,
              writes |-> c.writes, result |-> lib_exit_json(p.name, g.val)]

----------------------------------------------------------------------------
(* Reading the persisted document from outside, for stating properties *)

\* the content at a location is a document with a stages object
HoldsDocument(st, b) ==
    /\ st[b] # <<>>
    /\ ~json_invalid(st[b][1])
    /\ "stages" \in DOMAIN json_loads(st[b][1])

\* the stored status of a stage at a location: None when the stage (or the
\* whole document) is absent
Stored(st, b, n) ==
    IF HoldsDocument(st, b)
    THEN dict_get(json_loads(st[b][1]).stages, n)
    ELSE None

NoInvocation ==
    [ran |-> FALSE]

\* two playbook runs (hosts, controllers) that can overlap in time
Procs == {"p1", "p2"}

\* the argument_spec defaults: name='keyname', state='started',
\* state_backend='local', read_state=False
NoParams ==
    [name |-> "keyname", state |-> "started", state_backend |-> "local",
     read_state |-> FALSE, check_mode |-> FALSE]

\* a process that is not inside main()
IdleRun ==
    [pc |-> "idle", inv |-> NoParams, val |-> None,
     found |-> FALSE,
     got_doc |-> state_template, reread_differs |-> FALSE,
     read_doc |-> state_template, state |-> state_template,
     written |-> <<>>, result |-> module_failed("keyname")]

NoRuns == [p \in Procs |-> IdleRun]

Nobody == [b \in Backends |-> "nobody"]

----------------------------------------------------------------------------
(* Behaviour *)

Init ==
    /\ variant \in Variants
    /\ store = [b \in Backends |-> <<>>]
    /\ last = NoInvocation
    /\ completed_ok = {}
    /\ run = NoRuns
    /\ last_writer = Nobody

Record(p, o) ==
    [ran |-> TRUE, inv |-> p, before |-> store, mid |-> o.mid,
     init_writes |-> o.init_writes, writes |-> o.writes, result |-> o.result]

\* the playbook runs the plugin variant once
InvokePlugin ==
    /\ variant = "plugin"
    /\ \E name \in Names, state \in Choices, state_backend \in BackendArgs,
          read_state \in BOOLEAN, check_mode \in BOOLEAN :
         LET p == [name |-> name, state |-> state, state_backend |-> state_backend,
                   read_state |-> read_state, check_mode |-> check_mode]
         IN  \E o \in {main(store, p)} :
             /\ store' = o.store
             /\ last' = Record(p, o)
             /\ completed_ok' =
                  IF ~o.result.failed /\ ~read_state /\ state = "completed"
                  THEN completed_ok \cup {<<state_backend, name>>}
                  ELSE completed_ok
    /\ UNCHANGED <<variant, run, last_writer>>

\* the playbook runs the library variant once (no backend / read_state options)
InvokeLibrary ==
    /\ variant = "library"
    /\ \E name \in Names, state \in Choices, check_mode \in BOOLEAN :
         LET p == [name |-> name, state |-> state, state_backend |-> "local",
                   read_state |-> FALSE, check_mode |-> check_mode]
         IN  \E o \in {lib_main(store, p)} :
             /\ store' = o.store
             /\ last' = Record(p, o)
             /\ completed_ok' =
                  IF ~o.result.failed /\ state = "completed"
                  THEN completed_ok \cup {<<"local", name>>}
                  ELSE completed_ok
    /\ UNCHANGED <<variant, run, last_writer>>

Next == InvokePlugin \/ InvokeLibrary

Spec == Init /\ [][Next]_vars

\* the contents another tool, an editor or an interrupted write can leave
\* at a location before the module is first run against it
MalformedTexts == {NotJsonText, EmptyText, NoStagesText}

InitMalformed ==
    /\ variant \in Variants
    /\ store \in [Backends -> {<<>>} \cup {<<t>> : t \in MalformedTexts}]
    /\ last = NoInvocation
    /\ completed_ok = {}
    /\ run = NoRuns
    /\ last_writer = Nobody

SpecMalformed == InitMalformed /\ [][Next]_vars

TypeOK ==
    /\ variant \in Variants
    /\ \A b \in Backends : Len(store[b]) <= 1
    /\ completed_ok \subseteq (BackendArgs \X Names)
    /\ \A p \in Procs :
         run[p].pc \in {"idle", "init", "init_write", "init_dump", "get",
                        "set_read", "set_write", "set_dump", "done"}
    /\ \A b \in Backends : last_writer[b] \in Procs \cup {"nobody"}

----------------------------------------------------------------------------
(* Backend failures: one backend call of a run raises (I/O, network, auth) *)

\* the backend calls of a plugin run, in the order main() makes them
FaultPoints == {"none", "init_write", "get_read", "set_read", "set_write"}

\* what a failed write leaves behind: put_object replaces the object
\* atomically or not at all; open(state_file, "w") either fails (nothing
\* changes) or has truncated the file when json.dump fails (torn)
failed_write(st, state_backend, torn) ==
    IF state_backend = "local" /\ torn
    THEN [st EXCEPT !["local"] = <<EmptyText>>]
    ELSE st

BackendOp(op, ok) == [op |-> op, ok |-> ok]

\* main() of the plugin variant when the backend call `fault` raises: no
\* try/except anywhere, so the exception ends the run at that call; with a
\* state_backend other than local / s3 no backend call is made at all
main_faulty(st, p, fault, torn) ==
    LET b == p.state_backend
        i == init_state_file(st, b)
        init_ops == IF i.writes > 0 THEN <<BackendOp("write", TRUE)>> ELSE <<>>
        g == _get_state_key(i.store, p.name, b)
        \* main() calls _set_state_key
        sets == ~g.exc /\ ~p.read_state /\ g.val # "completed" /\ g.val # p.state
        \* _set_state_key gets as far as _write_state_file: state["stages"]
        \* did not raise KeyError
        puts == sets /\ ~_set_state_key(i.store, p.name, p.state, b).exc
        o == main(st, p)
        Out(store_, mid_, ops_, hit_) ==
            [store |-> store_, mid |-> mid_, init_writes |-> i.writes,
             writes |-> Len(SelectSeq(ops_, LAMBDA e : e.op = "write")),
             result |-> IF hit_ THEN module_failed(p.name) ELSE o.result,
             ops |-> ops_, hit |-> hit_]
    IN  IF b \notin Backends
        THEN Out(o.store, i.store, <<>>, FALSE)
        ELSE IF fault = "init_write" /\ i.writes > 0
        THEN Out(failed_write(st, b, torn), failed_write(st, b, torn),
                 <<BackendOp("write", FALSE)>>, TRUE)
        ELSE IF fault = "get_read"
        THEN Out(i.store, i.store, init_ops \o <<BackendOp("read", FALSE)>>, TRUE)
        ELSE IF fault = "set_read" /\ sets
        THEN Out(i.store, i.store,
                 init_ops \o <<BackendOp("read", TRUE), BackendOp("read", FALSE)>>,
                 TRUE)
        ELSE IF fault = "set_write" /\ puts
        THEN Out(failed_write(i.store, b, torn), i.store,
                 init_ops \o <<BackendOp("read", TRUE), BackendOp("read", TRUE),
                               BackendOp("write", FALSE)>>,
                 TRUE)
        ELSE Out(o.store, i.store,
                 init_ops \o <<BackendOp("read", TRUE)>>
                   \o (IF sets THEN <<BackendOp("read", TRUE)>> ELSE <<>>)
                   \o (IF puts THEN <<BackendOp("write", TRUE)>> ELSE <<>>),
                 FALSE)

InitFaults ==
    /\ variant = "plugin"
    /\ store = [b \in Backends |-> <<>>]
    /\ last = NoInvocation
    /\ completed_ok = {}
    /\ run = NoRuns
    /\ last_writer = Nobody

\* the playbook runs the plugin variant once; the backend may fail one call
InvokePluginFaulty ==
    /\ variant = "plugin"
    /\ \E name \in SmallNames, state \in Choices, state_backend \in Backends,
          read_state \in BOOLEAN, fault \in FaultPoints :
       \E torn \in IF fault \in {"init_write", "set_write"} THEN BOOLEAN ELSE {FALSE} :
         LET p == [name |-> name, state |-> state, state_backend |-> state_backend,
                   read_state |-> read_state, check_mode |-> FALSE]
         IN  \E o \in {main_faulty(store, p, fault, torn)} :
             /\ store' = o.store
             /\ last' = [ran |-> TRUE, inv |-> p, before |-> store, mid |-> o.mid,
                         init_writes |-> o.init_writes, writes |-> o.writes,
                         result |-> o.result, ops |-> o.ops, hit |-> o.hit,
                         fault |-> IF o.hit THEN fault ELSE "none"]
             /\ completed_ok' =
                  IF ~o.result.failed /\ ~read_state /\ state = "completed"
                  THEN completed_ok \cup {<<state_backend, name>>}
                  ELSE completed_ok
    /\ UNCHANGED <<variant, run, last_writer>>

NextFaults == InvokePluginFaulty

SpecFaults == InitFaults /\ [][NextFaults]_vars

----------------------------------------------------------------------------
(* Concurrent callers: two runs of the plugin's main(), one backend call   *)
(* per step.  No lock, no conditional write: the calls interleave freely.  *)

InitConc ==
    /\ variant = "plugin"
    /\ store = [b \in Backends |-> <<>>]
    /\ last = NoInvocation
    /\ completed_ok = {}
    /\ run = NoRuns
    /\ last_writer = Nobody

\* open(state_file, "w"): the file exists and is empty until json.dump lands
truncate(st) == [st EXCEPT !["local"] = <<EmptyText>>]

\* the number of characters of the strings that occur in a file
StrLen(str) ==
    CASE str = "" -> 0
      [] str = "v1" -> 2
      [] str \in {"first", "third"} -> 5
      [] str = "second" -> 6
      [] str \in {"started", "keyname"} -> 7
      [] str = "not json" -> 8
      [] str = "completed" -> 9

\* the characters the members "k": "v" of a stages object take, separators
\* ", " included
RECURSIVE members_len(_)
members_len(ms) ==
    IF ms = {}
    THEN 0
    ELSE LET m == CHOOSE x \in ms : TRUE
             rest == ms \ {m}
         IN  StrLen(m[1]) + StrLen(m[2]) + 6
               + (IF rest = {} THEN 0 ELSE 2) + members_len(rest)

\* the size of a file with this content:
\*   {"version": "v1", "stages": {...}} is 29 + len(version) + the members,
\*   {"version": "v1"} is 15 + len(version)
text_len(text) ==
    IF "len" \in DOMAIN text THEN text.len
    ELSE IF "members" \in DOMAIN text
    THEN 29 + StrLen(text.version) + members_len(text.members)
    ELSE IF "raw" \in DOMAIN text THEN StrLen(text.raw)
    ELSE 15 + StrLen(text.version)

\* json.dump(doc, file) and the close of the `with` block: the text goes to
\* the file in one write at offset 0.  The file was emptied when this run
\* opened it; what another run wrote since then stays beyond the end of the
\* text, and the file is then the text followed by that tail (json.loads:
\* "Extra data")
dump_close(st, doc) ==
    LET text == json_dumps(doc)
        old == st["local"][1]
    IN  [st EXCEPT !["local"] =
           IF text_len(old) <= text_len(text)
           THEN <<text>>
           ELSE <<[raw |-> "extra data", head |-> text, len |-> text_len(old)]>>]

\* exit_json / the uncaught exception: the locals of main() are gone
Finish(p, result) ==
    [run[p] EXCEPT !.pc = "done", !.result = result,
                   !.val = None, !.got_doc = state_template,
                   !.state = state_template]

\* both runs are pointed at the same location: the backend is the one the
\* run in progress (or the finished one) was given
SharedBackends ==
    {b \in Backends :
       \A q \in Procs : run[q].pc = "idle" \/ run[q].inv.state_backend = b}

\* main() is entered with the module parameters (lines 208-213)
Start(p) ==
    /\ run[p].pc \in {"idle", "done"}
    /\ \E name \in SmallNames, state \in Choices, state_backend \in SharedBackends,
          read_state \in BOOLEAN :
         run' = [run EXCEPT ![p] =
                   [IdleRun EXCEPT
                      !.pc = "init",
                      !.inv = [name |-> name, state |-> state,
                               state_backend |-> state_backend,
                               read_state |-> read_state, check_mode |-> FALSE]]]
    /\ UNCHANGED <<variant, store, last, completed_ok, last_writer>>

\* init_state_file: the os.path.exists test (local) or the put_object (s3);
\* found records whether the file was there when the test ran
InitCheck(p) ==
    /\ run[p].pc = "init"
    /\ IF run[p].inv.state_backend = "local"
       THEN /\ run' = [run EXCEPT
                         ![p].pc = IF os_path_exists(store) THEN "get"
                                                            ELSE "init_write",
                         ![p].found = (store["local"] # <<>>)]
            /\ UNCHANGED <<store, last_writer>>
       ELSE /\ store' = _create_s3_state_file(store).store
            /\ last_writer' = [last_writer EXCEPT !["s3"] = p]
            /\ run' = [run EXCEPT ![p].pc = "get"]
    /\ UNCHANGED <<variant, last, completed_ok>>

\* _create_local_state_file: open(state_file, "w")
InitWrite(p) ==
    /\ run[p].pc = "init_write"
    /\ store' = truncate(store)
    /\ last_writer' = [last_writer EXCEPT !["local"] = p]
    /\ run' = [run EXCEPT ![p].pc = "init_dump"]
    /\ UNCHANGED <<variant, last, completed_ok>>

\* _create_local_state_file: json.dump(state_template, file)
InitDump(p) ==
    /\ run[p].pc = "init_dump"
    /\ store' = dump_close(store, state_template)
    /\ last_writer' = [last_writer EXCEPT !["local"] = p]
    /\ run' = [run EXCEPT ![p].pc = "get"]
    /\ UNCHANGED <<variant, last, completed_ok>>

\* _get_state_key and the branches of main() that follow it (lines 222-232)
Get(p) ==
    /\ run[p].pc = "get"
    /\ LET inv == run[p].inv
           g == _get_state_key(store, inv.name, inv.state_backend)
       IN  run' = [run EXCEPT ![p] =
             IF g.exc
             THEN Finish(p, module_failed(inv.name))
             ELSE IF inv.read_state
             THEN Finish(p, exit_json(inv.name, g.val, FALSE))
             ELSE IF g.val = "completed"
             THEN Finish(p, exit_json(inv.name, "completed", FALSE))
             ELSE IF g.val # inv.state
             THEN [run[p] EXCEPT
                     !.pc = "set_read", !.val = g.val,
                     !.got_doc = _read_state_file(store, inv.state_backend).state]
             ELSE Finish(p, exit_json(inv.name, "started", FALSE))]
    /\ UNCHANGED <<variant, store, last, completed_ok, last_writer>>

\* _set_state_key: its own _read_state_file and the in-memory update
SetRead(p) ==
    /\ run[p].pc = "set_read"
    /\ LET inv == run[p].inv
           r == _read_state_file(store, inv.state_backend)
       IN  run' = [run EXCEPT ![p] =
             IF r.outcome = "ok" /\ "stages" \in DOMAIN r.state
             THEN [run[p] EXCEPT
                     !.pc = "set_write",
                     !.read_doc = r.state,
                     !.reread_differs = (r.state # run[p].got_doc),
                     !.state = [r.state EXCEPT
                                  !.stages = dict_set(r.state.stages,
                                                      inv.name, inv.state)]]
             ELSE Finish(p, module_failed(inv.name))]
    /\ UNCHANGED <<variant, store, last, completed_ok, last_writer>>

\* _write_state_file: open(state_file, "w") (local) or the put_object (s3)
SetWrite(p) ==
    /\ run[p].pc = "set_write"
    /\ LET inv == run[p].inv
       IN  IF inv.state_backend = "local"
           THEN /\ store' = truncate(store)
                /\ run' = [run EXCEPT ![p].pc = "set_dump"]
           ELSE /\ store' = _write_state_file(store, run[p].state, "s3").store
                /\ run' = [run EXCEPT ![p] =
                              [Finish(p, exit_json(inv.name, inv.state, TRUE))
                                 EXCEPT !.written = <<json_dumps(run[p].state)>>]]
    /\ last_writer' = [last_writer EXCEPT ![run[p].inv.state_backend] = p]
    /\ UNCHANGED <<variant, last, completed_ok>>

\* _write_state_file: json.dump(state, file) on the local file
SetDump(p) ==
    /\ run[p].pc = "set_dump"
    /\ store' = dump_close(store, run[p].state)
    /\ last_writer' = [last_writer EXCEPT !["local"] = p]
    /\ run' = [run EXCEPT ![p] =
                  [Finish(p, exit_json(run[p].inv.name, run[p].inv.state, TRUE))
                     EXCEPT !.written = <<json_dumps(run[p].state)>>]]
    /\ UNCHANGED <<variant, last, completed_ok>>

NextConc ==
    \E p \in Procs :
        \/ Start(p)
        \/ InitCheck(p)
        \/ InitWrite(p)
        \/ InitDump(p)
        \/ Get(p)
        \/ SetRead(p)
        \/ SetWrite(p)
        \/ SetDump(p)

SpecConc == InitConc /\ [][NextConc]_vars

----------------------------------------------------------------------------
(* Vocabulary of the properties *)

\* the stage-name -> status view of the document at a location; a location
\* that does not exist reads as "no stage recorded"
StagesOf(st, b) == [n \in Names |-> Stored(st, b, n)]

\* a finished, successful run of the plugin variant against a real backend
PluginRun(r) ==
    /\ variant = "plugin"
    /\ r.ran
    /\ r.inv.state_backend \in Backends
    /\ ~r.result.failed

\* the per-stage state machine: Unset -> started | completed, started -> completed
Forward(old, new) ==
    \/ new = old
    \/ old = None
    \/ old = "started" /\ new = "completed"

----------------------------------------------------------------------------
(* C1 .. C10 *)

\* C1 (sticky completion): once a state=completed run succeeded for a stage
\* at a location, every later successful set run (read_state=false, state
\* started or completed) for that stage and location returns state=completed
\* and changed=false.
C1_StickyCompletion ==
    [][\A b \in Backends, n \in Names :
         ( /\ <<b, n>> \in completed_ok
           /\ PluginRun(last')
           /\ last'.inv.state_backend = b
           /\ last'.inv.name = n
           /\ ~last'.inv.read_state )
         => ( /\ last'.result.state = "completed"
              /\ last'.result.changed = FALSE )]_vars

\* C2 (per-stage state machine): in every step of either variant on either
\* backend, the stored status of every stage stays the same or moves
\* Unset -> started, Unset -> completed or started -> completed.
C2_StageStateMachine ==
    [][\A b \in Backends, n \in Names :
         Forward(Stored(store, b, n), Stored(store', b, n))]_vars

\* C3 (rerun idempotence): when the plugin is run twice in a row with the
\* same parameters, the second run leaves the document as the first left it,
\* returns the first run's final state with changed=false, and writes nothing.
C3_RerunIdempotent ==
    [][( /\ PluginRun(last)
         /\ PluginRun(last')
         /\ last'.inv = last.inv )
       => ( /\ store'[last.inv.state_backend] = store[last.inv.state_backend]
            /\ last'.result.state = last.result.state
            /\ last'.result.changed = FALSE
            /\ last'.writes = 0 )]_vars

\* C4 (idempotent initialization): when init_state_file runs on a location
\* that does not exist and then runs again with no write in between (the
\* first run was a read_state run), the document is the empty template after
\* each of the two and the second one writes nothing.
C4_InitTwice ==
    [][( /\ PluginRun(last)
         /\ PluginRun(last')
         /\ last.before[last.inv.state_backend] = <<>>
         /\ last.inv.read_state
         /\ last'.inv.state_backend = last.inv.state_backend )
       => ( /\ last.mid[last.inv.state_backend] = <<json_dumps(state_template)>>
            /\ last'.mid[last.inv.state_backend] = <<json_dumps(state_template)>>
            /\ last'.init_writes = 0 )]_vars

\* C5 (never clobber): in both variants and on both backends, when the
\* location already held a document before the run, the document right
\* after the initialization step is that same document.
C5_InitKeepsExisting ==
    ( /\ last.ran
      /\ last.inv.state_backend \in Backends
      /\ last.before[last.inv.state_backend] # <<>> )
    => last.mid[last.inv.state_backend] = last.before[last.inv.state_backend]

\* C6 (isolation across keys): a plugin run that targets stage a leaves the
\* stored status of every other stage b at that location as it was.
C6_OtherKeysUntouched ==
    PluginRun(last)
    => \A n \in Names \ {last.inv.name} :
         Stored(store, last.inv.state_backend, n)
           = Stored(last.before, last.inv.state_backend, n)

\* C7 (no-op on equal state): a set run whose desired state equals the status
\* stored for the stage returns that state with changed=false, writes
\* nothing, and leaves every other stage as it was.
C7_NoOpOnEqual ==
    ( /\ PluginRun(last)
      /\ ~last.inv.read_state
      /\ Stored(last.before, last.inv.state_backend, last.inv.name) = last.inv.state )
    => ( /\ last.result.changed = FALSE
         /\ last.result.state = last.inv.state
         /\ last.writes = 0
         /\ StagesOf(store, last.inv.state_backend)
              = StagesOf(last.before, last.inv.state_backend) )

\* C8 (forward transition): a set run on a stage whose stored status is Unset
\* or started and differs from the desired state returns (desired, changed
\* = true), writes the document it read with exactly that stage set to the
\* desired state, and _get_state_key then reads the desired state back.
C8_ForwardTransition ==
    ( /\ PluginRun(last)
      /\ ~last.inv.read_state
      /\ Stored(last.before, last.inv.state_backend, last.inv.name)
           \in {None, "started"}
      /\ Stored(last.before, last.inv.state_backend, last.inv.name) # last.inv.state )
    => LET b == last.inv.state_backend
           read == json_loads(last.mid[b][1])
           want == [read EXCEPT
                      !.stages = dict_set(read.stages, last.inv.name, last.inv.state)]
       IN  /\ last.result.state = last.inv.state
           /\ last.result.changed = TRUE
           /\ last.writes >= 1
           /\ store[b] = <<json_dumps(want)>>
           /\ _get_state_key(store, last.inv.name, b)
                = [exc |-> FALSE, val |-> last.inv.state]

\* a started stage was completed on a local document that records another stage
C8_Witness ==
    /\ PluginRun(last)
    /\ ~last.inv.read_state
    /\ last.inv.state_backend = "local"
    /\ Stored(last.before, "local", last.inv.name) = "started"
    /\ last.inv.state = "completed"
    /\ last.result.changed = TRUE
    /\ \E n \in Names \ {last.inv.name} : Stored(store, "local", n) # None

\* C9 (read-only get never mutates): a read_state run returns changed=false
\* and the status stored for the stage, and leaves the stages recorded at the
\* location as they were.
C9_ReadOnlyGet ==
    ( PluginRun(last) /\ last.inv.read_state )
    => ( /\ last.result.changed = FALSE
         /\ last.result.state
              = Stored(last.before, last.inv.state_backend, last.inv.name)
         /\ StagesOf(store, last.inv.state_backend)
              = StagesOf(last.before, last.inv.state_backend) )

\* C10 (get of a never-set key): in both variants, a run whose stage name is
\* absent from the stages it reads does not fail, and a read of that stage
\* returns the Unset sentinel.
C10_MissingKeyIsUnset ==
    ( /\ last.ran
      /\ last.inv.state_backend \in Backends
      /\ Stored(last.mid, last.inv.state_backend, last.inv.name) = None )
    => ( /\ ~last.result.failed
         /\ last.inv.read_state => last.result.state = None )

----------------------------------------------------------------------------
(* C11 .. C20 *)

\* C11 (returned state is the final state): for every successful run of
\* either variant, the `state` of the result is the status stored for the
\* stage when the run finishes (None when the stage is absent).
C11_ReturnedIsFinal ==
    ( /\ last.ran
      /\ last.inv.state_backend \in Backends
      /\ ~last.result.failed )
    => last.result.state = Stored(store, last.inv.state_backend, last.inv.name)

\* C12 (check mode): a run with check mode enabled performs no write: the
\* location exists after the run iff it existed before, with the same content.
C12_CheckModeNoWrite ==
    ( last.ran /\ last.inv.check_mode )
    => ( store = last.before /\ last.writes = 0 )

\* a finished run of process p that reported success with changed=true
SetDone(p) ==
    /\ run[p].pc = "done"
    /\ ~run[p].result.failed
    /\ run[p].result.changed

\* the content at location b is the text process p wrote, or (local file)
\* begins with it and goes on with what is left of a longer text
BeginsWithWritten(b, p) ==
    \/ store[b] = run[p].written
    \/ /\ b = "local"
       /\ "head" \in DOMAIN store[b][1]
       /\ <<store[b][1].head>> = run[p].written

\* C13 (last writer wins): there is an interleaving of two concurrent set
\* runs on the same location and stage in which both report success with
\* changed=true, the stored status is the value written last and the other
\* run's transition is gone (C13_Witness); and whenever both have reported
\* changed=true, the content begins with the text of the run whose write
\* landed last, and when it is a document the stored status is that run's.
C13_LastWriterWins ==
    \A p, q \in Procs :
        ( /\ p # q
          /\ SetDone(p) /\ SetDone(q)
          /\ run[p].inv.name = run[q].inv.name
          /\ last_writer[run[p].inv.state_backend] = p )
        => LET b == run[p].inv.state_backend
           IN  /\ BeginsWithWritten(b, p)
               /\ HoldsDocument(store, b)
                    => Stored(store, b, run[p].inv.name) = run[p].inv.state

\* on the local file, a run told (completed, changed=true) and a run told
\* (started, changed=true) for the same stage both finished; started is stored
C13_Witness ==
    \E p, q \in Procs :
        /\ SetDone(p) /\ SetDone(q)
        /\ run[p].inv.state_backend = "local"
        /\ run[p].inv.name = run[q].inv.name
        /\ run[p].inv.state = "started"
        /\ run[q].inv.state = "completed"
        /\ last_writer["local"] = p
        /\ Stored(store, "local", run[p].inv.name) = "started"

\* C14 (malformed documents are surfaced, never replaced): when the location
\* holds content that is not JSON or has no stages object, every plugin run
\* against it (get, set or read_state, either backend) ends in an error and
\* leaves the content as it was.
C14_MalformedSurfaced ==
    ( /\ variant = "plugin"
      /\ last.ran
      /\ last.inv.state_backend \in Backends
      /\ last.before[last.inv.state_backend] # <<>>
      /\ ~HoldsDocument(last.before, last.inv.state_backend) )
    => ( /\ last.result.failed
         /\ store[last.inv.state_backend] = last.before[last.inv.state_backend] )

\* C15 (backend errors are fatal and not retried): when a backend read or
\* write fails during a run, the run ends in an error, the failed call is the
\* last backend call of the run, and if it is not the update write the
\* stored status of the targeted stage is what it was before the run.
C15_BackendErrorFatal ==
    ( last.ran /\ last.hit )
    => ( /\ last.result.failed
         /\ \A k \in 1..Len(last.ops) : ~last.ops[k].ok => k = Len(last.ops)
         /\ last.fault # "set_write"
              => Stored(store, last.inv.state_backend, last.inv.name)
                   = Stored(last.before, last.inv.state_backend, last.inv.name) )

\* C16 (document invariant): every persisted document has version "v1" and
\* every value in its stages is "started" or "completed".
C16_DocumentInvariant ==
    \A b \in Backends :
        store[b] # <<>>
        => LET doc == json_loads(store[b][1])
           IN  /\ doc.version = "v1"
               /\ \A k \in DOMAIN doc.stages : doc.stages[k] \in Choices

\* a set run wrote a local document that records a started and a completed stage
C16_Witness ==
    /\ last.ran
    /\ last.writes > last.init_writes
    /\ \E k1, k2 \in Names :
         /\ Stored(store, "local", k1) = "started"
         /\ Stored(store, "local", k2) = "completed"

\* C17 (creation on first use): in both variants, a run against a location
\* that does not exist creates the document with version "v1" and empty
\* stages before the stage is read, does not fail, and every stage name
\* reads as None on the created document.
C17_CreatedOnFirstUse ==
    ( /\ last.ran
      /\ last.inv.state_backend \in Backends
      /\ last.before[last.inv.state_backend] = <<>> )
    => ( /\ last.mid[last.inv.state_backend] = <<json_dumps(state_template)>>
         /\ ~last.result.failed
         /\ \A n \in Names : Stored(last.mid, last.inv.state_backend, n) = None )

\* C18 (whole-document read-modify-write): the document _set_state_key wrote
\* is the document its own read returned (the second read of the run, after
\* the one main() decided on) with the targeted stage set to the desired
\* state, every other entry and the version unchanged.
C18_ReadModifyWrite ==
    \A p \in Procs :
        SetDone(p)
        => LET w == json_loads(run[p].written[1])
               r == run[p].read_doc
           IN  /\ w.version = r.version
               /\ DOMAIN w.stages = DOMAIN r.stages \cup {run[p].inv.name}
               /\ w.stages[run[p].inv.name] = run[p].inv.state
               /\ \A k \in DOMAIN r.stages \ {run[p].inv.name} :
                    w.stages[k] = r.stages[k]

\* the second read returned a document other than the one main() decided
\* on, and the entry of another stage in it was written back
C18_Witness ==
    \E p \in Procs :
        /\ SetDone(p)
        /\ run[p].reread_differs
        /\ \E k \in DOMAIN run[p].read_doc.stages :
             /\ k # run[p].inv.name
             /\ <<k, run[p].read_doc.stages[k]>> \in run[p].written[1].members

\* C19 (write then read round-trips): after _write_state_file stored a
\* document D (the document the run read, with the stage set), the next
\* _read_state_file of the location returns D: same version, same stages.
C19_WriteReadRoundTrip ==
    ( PluginRun(last) /\ last.writes > last.init_writes )
    => LET b == last.inv.state_backend
           read == json_loads(last.mid[b][1])
           D == [read EXCEPT
                   !.stages = dict_set(read.stages, last.inv.name, last.inv.state)]
       IN  _read_state_file(store, b) = [outcome |-> "ok", state |-> D]

\* a document with two other stages was written and read back
C19_Witness ==
    /\ PluginRun(last)
    /\ last.writes > last.init_writes
    /\ Cardinality({n \in Names : Stored(store, last.inv.state_backend, n) # None}) = 3

\* C20 (changed matches the effect): for every successful plugin run,
\* changed=true iff the stages recorded at the location after the run differ
\* from those before it (a created empty document counts as no difference).
C20_ChangedMatchesEffect ==
    PluginRun(last)
    => ( last.result.changed
           <=> StagesOf(store, last.inv.state_backend)
                 # StagesOf(last.before, last.inv.state_backend) )

----------------------------------------------------------------------------
(* C21 .. C24 *)

\* the module parameters of a plugin run against backend b
ParamsOn(b, name, state, read_state) ==
    [name |-> name, state |-> state, state_backend |-> b,
     read_state |-> read_state, check_mode |-> FALSE]

\* C21 (backend equivalence): whenever the local file and the s3 object hold
\* the same document (or both are absent), every invocation (stage name,
\* desired state, read_state) returns the same (state, changed) on the two
\* backends and leaves equal documents on them; step by step, this is the
\* equivalence of the two backends on every sequence of invocations.
C21_BackendEquivalence ==
    ( variant = "plugin" /\ store["local"] = store["s3"] )
    => \A name \in Names, state \in Choices, read_state \in BOOLEAN :
         LET l == main(store, ParamsOn("local", name, state, read_state))
             s == main(store, ParamsOn("s3", name, state, read_state))
         IN  /\ l.result.failed = s.result.failed
             /\ l.result.state = s.result.state
             /\ l.result.changed = s.result.changed
             /\ l.store["local"] = s.store["s3"]

\* a run of process p that is inside _set_state_key: main() took the branch
\* that updates the stage
Setting(p) == run[p].pc \in {"set_read", "set_write", "set_dump"}

\* C22 (terminal state under concurrent callers): with two runs against the
\* same local file and stage, when a run that stored completed for the stage
\* has finished and the other run's write landed after it, the document does
\* not store started for the stage.
C22_TerminalUnderConcurrency ==
    \A p, q \in Procs :
        ( /\ p # q
          /\ SetDone(q)
          /\ run[q].inv.state_backend = "local"
          /\ run[q].inv.state = "completed"
          /\ run[p].inv.name = run[q].inv.name
          /\ last_writer["local"] = p )
        => Stored(store, "local", run[q].inv.name) # "started"

\* C22 as amended: a run updates the stage only when its own get read a
\* status other than completed, and stores started only when its get read
\* the stage as Unset; what the document stores by the time of the write is
\* not looked at again.
C22_WriterReadNotCompleted ==
    \A p \in Procs :
        ( Setting(p) /\ run[p].inv.state_backend = "local" )
        => LET read == dict_get(run[p].got_doc.stages, run[p].inv.name)
           IN  /\ read # "completed"
               /\ read # run[p].inv.state
               /\ run[p].inv.state = "started" => read = None

\* a run whose get read Unset is about to write started while the file
\* stores completed for the stage
C22_Witness ==
    \E p \in Procs :
        /\ run[p].pc = "set_write"
        /\ run[p].inv.state_backend = "local"
        /\ run[p].inv.state = "started"
        /\ dict_get(run[p].got_doc.stages, run[p].inv.name) = None
        /\ Stored(store, "local", run[p].inv.name) = "completed"

\* two finished set runs on the local file, both changed=true, for two
\* distinct stages, each of which found the file in place when it started
TwoKeysDone(p, q) ==
    /\ p # q
    /\ SetDone(p) /\ SetDone(q)
    /\ run[p].inv.state_backend = "local"
    /\ run[p].found /\ run[q].found
    /\ run[p].inv.name # run[q].inv.name

\* C23 (no lost update across distinct keys): when two set runs on the same
\* existing local document for two distinct stages have both returned
\* changed=true, the document contains both new entries.
C23_NoLostUpdate ==
    \A p, q \in Procs :
        TwoKeysDone(p, q)
        => /\ Stored(store, "local", run[p].inv.name) = run[p].inv.state
           /\ Stored(store, "local", run[q].inv.name) = run[q].inv.state

\* C23 as amended: the file begins with the document D of the run whose
\* write landed last (and is D unless a longer text was written since that
\* run opened the file); D contains that run's new entry, and contains the
\* other run's new entry exactly when the last writer's own read in
\* _set_state_key returned it; otherwise the other update is lost.
C23_LastWriterKeepsWhatItRead ==
    \A p, q \in Procs :
        ( TwoKeysDone(p, q) /\ last_writer["local"] = p )
        => LET D == json_loads(run[p].written[1])
           IN  /\ BeginsWithWritten("local", p)
               /\ dict_get(D.stages, run[p].inv.name) = run[p].inv.state
               /\ ( dict_get(D.stages, run[q].inv.name) = run[q].inv.state
                      <=> dict_get(run[p].read_doc.stages, run[q].inv.name)
                            = run[q].inv.state )

\* both runs returned changed=true and the entry of the first writer is
\* not in the document
C23_Witness ==
    \E p, q \in Procs :
        /\ TwoKeysDone(p, q)
        /\ last_writer["local"] = p
        /\ store["local"] = run[p].written
        /\ Stored(store, "local", run[p].inv.name) = run[p].inv.state
        /\ Stored(store, "local", run[q].inv.name) = None

\* process p takes a step of _create_local_state_file (the open or the dump)
InitWriteStep(p) ==
    /\ run[p].pc \in {"init_write", "init_dump"}
    /\ run'[p].pc # run[p].pc

\* C24 (concurrent first use does not erase a recorded stage): no step of a
\* run's initialization write on the local file removes a stage entry that
\* the other run wrote.
C24_InitNeverErases ==
    [][\A p \in Procs :
         InitWriteStep(p)
         => \A n \in Names :
              Stored(store, "local", n) # None
              => Stored(store', "local", n) = Stored(store, "local", n)]_vars

\* C24 as amended: a run performs its initialization write only when its own
\* existence check found no file, so it never removes an entry that was
\* recorded before that check; an entry the other run records between the
\* check and the write is removed.
C24_InitWriteOnlyAfterAbsent ==
    \A p \in Procs :
        run[p].pc \in {"init_write", "init_dump"} => ~run[p].found

\* a run that had found no file has just truncated it, after the other run
\* created it, recorded a stage and returned changed=true
C24_Witness ==
    \E p, q \in Procs :
        /\ run[p].pc = "init_dump"
        /\ ~run[p].found
        /\ SetDone(q)
        /\ run[q].inv.state_backend = "local"
        /\ run[q].written # <<>>
        /\ last_writer["local"] = p
        /\ store["local"] = <<EmptyText>>

====
